---- MODULE Spec2Model ----
(***************************************************************************)
(* BFOneGpu<T> (SNIG/bf, one GPU): the constructor's tiling computation    *)
(* and the double-buffered inference pipeline infer/_infer_BF, with the    *)
(* host thread, the transfer stream stream[0], the compute stream          *)
(* stream[1] and the default stream as separate agents.                    *)
(***************************************************************************)
EXTENDS Integers, Sequences, FiniteSets, TLC

VARIABLES
  pc,                \* position of the host thread in infer/_infer_BF
  num_layers,        \* _num_layers
  bias,              \* _bias
  cur_layer,         \* loop variable of _infer_BF
  d_W,               \* d_W[s]: index of the layer block the device slot holds
  Y,                 \* Y[b][row][neuron]: the two feature buffers
  rowsY,             \* rowsY[b][i]: the two active-row lists
  rlenY,             \* rlenY[b][row]: the two row-length arrays
  nerowsY,           \* number of valid entries of the current active-row list
  results,           \* results[row]
  stream0,           \* copies issued on stream[0] and not yet completed
  stream1,           \* kernels launched on stream[1] and not yet completed
  stream_default,    \* kernels launched on the default stream, not yet completed
  issued,            \* layer indices of the cudaMemcpyAsync calls, in issue order
  last_error,        \* error state of the CUDA runtime as left by the last failure
  tpc,               \* position of the constructor's tiling computation
  num_neurons,       \* num_neurons_per_layer given to the constructor
  sharedMemPerBlock, \* props.sharedMemPerBlock
  sizeof_T,          \* sizeof(T)
  max_num_per_block, \* sharedMemPerBlock / sizeof(T)
  max_divisor,       \* int max_divisor
  COL_BLK,           \* _COL_BLK
  N_SLAB,            \* _N_SLAB
  log,               \* pipeline events of _infer_BF, in the order they happened
  res,               \* res[r]: state of each resource infer acquires
  results_eigen,     \* the vector infer returns
  h_pinned_weight,   \* _h_pinned_weight[L]: the block stored at layer offset L
  cpc,               \* position of the converter's tiling computation
  conv_max_num_per_block, \* converter: sharedMemPerBlock / sizeof(float)
  conv_max_divisor,  \* converter: int max_divisor
  conv_COL_BLK,      \* converter: COL_BLK
  conv_N_SLAB,       \* converter: N_SLAB
  lpc,               \* position of the constructor's layout computation
  max_nnz_per_layer, \* _max_nnz_per_layer
  pad,               \* _pad
  p_w_index_len,     \* _p_w_index_len
  pp_w_index_len,    \* _pp_w_index_len
  pp_wlen,           \* _pp_wlen
  pp_wsize           \* _pp_wsize

pipe_vars == <<pc, num_layers, bias, cur_layer, d_W, Y, rowsY, rlenY, nerowsY,
               results, stream0, stream1, stream_default, issued, last_error,
               log, res, results_eigen, h_pinned_weight>>
tile_vars == <<tpc, num_neurons, sharedMemPerBlock, sizeof_T, max_num_per_block,
               max_divisor, COL_BLK, N_SLAB>>
conv_vars == <<cpc, conv_max_num_per_block, conv_max_divisor, conv_COL_BLK, conv_N_SLAB>>
lay_vars == <<lpc, max_nnz_per_layer, pad, p_w_index_len, pp_w_index_len, pp_wlen,
              pp_wsize>>
vars == <<pipe_vars, tile_vars, conv_vars, lay_vars>>

(***************************************************************************)
(* Bounds of the model.                                                    *)
(***************************************************************************)
MaxLayers == 3
NumInputs == 2
Neurons == 2
MaxAct == 3
MaxNeurons == 12
MaxSharedMem == 48
MaxNnz == 4

RowIdx == 0 .. (NumInputs - 1)
NeuronIdx == 0 .. (Neurons - 1)
BufIdx == {0, 1}
BiasSet == {0 - 1, 0}

\* what infer and _infer_BF acquire
Resources ==
  {"d_W0", "d_W1", "Y0", "Y1", "rowsY0", "rowsY1", "rlenY0", "rlenY1", "results",
   "stream0", "stream1"}

\* content of memory that was allocated and never written
Undef == 0 - 1
\* class reported by identify for a row without a positive activation
Inactive == 0 - 1

(***************************************************************************)
(* Data: weights, inputs, the layer function.                              *)
(***************************************************************************)

\* The packed block of layer L in the host pinned region, as the dense 0/1
\* matrix it encodes: W[k][n] = 1 iff n = (k + L) mod Neurons.
WeightOf(L) ==
  [k \in NeuronIdx |-> [n \in NeuronIdx |-> IF n = (k + L) % Neurons THEN 1 ELSE 0]]

\* what a copy of the block of layer L out of the host pinned region reads; a
\* block past the end of the region has no defined content
HostBlock(L) == IF L \in DOMAIN h_pinned_weight THEN h_pinned_weight[L] ELSE Undef

\* memory after cudaMemset(.., 0, ..), where it holds no weight block
Zeroed == Undef - 1

RECURSIVE SumTo(_, _)
SumTo(f, k) == IF k < 0 THEN 0 ELSE f[k] + SumTo(f, k - 1)

Relu(x) == IF x > 0 THEN x ELSE 0

NonZeros(row) == Cardinality({n \in NeuronIdx : row[n] # 0})

\* y[r][n] = relu(sum_k x[r][k] * W[k][n] + bias)
LayerOut(x, W, b) ==
  [n \in NeuronIdx |->
     Relu(SumTo([k \in NeuronIdx |-> x[k] * W[k][n]], Neurons - 1) + b)]

\* the strictly increasing enumeration of a set of row indices, written over
\* the first Cardinality(S) positions of the list old
RECURSIVE SortedInto(_, _, _)
SortedInto(S, old, pos) ==
  IF S = {} THEN old
  ELSE LET m == CHOOSE x \in S : \A y \in S : x <= y
       IN SortedInto(S \ {m}, [old EXCEPT ![pos] = m], pos + 1)

\* one input row: activation v in column (r mod Neurons), zero elsewhere
InputRow(r, v) == [n \in NeuronIdx |-> IF n = r % Neurons THEN v ELSE 0]

ZeroRow == [n \in NeuronIdx |-> 0]
ZeroBuf == [r \in RowIdx |-> ZeroRow]
UndefBuf == [r \in RowIdx |-> [n \in NeuronIdx |-> Undef]]
ZeroInts == [r \in RowIdx |-> 0]
UndefInts == [r \in RowIdx |-> Undef]

(***************************************************************************)
(* _non_empty_rows: the loop over i, with nnz reset to 0 first.            *)
(***************************************************************************)
RECURSIVE non_empty_loop(_, _, _, _, _)
non_empty_loop(i, num_inputs, rlen, rows, nnz) ==
  IF i >= num_inputs THEN [rowsY |-> rows, nnz |-> nnz]
  ELSE IF rlen[i] > 0
       THEN non_empty_loop(i + 1, num_inputs, rlen, [rows EXCEPT ![nnz] = i], nnz + 1)
       ELSE non_empty_loop(i + 1, num_inputs, rlen, rows, nnz)

non_empty_rows_from1(num_inputs, rlen, rows, nnz) ==
  non_empty_loop(1, num_inputs, rlen, rows, 0)

non_empty_rows_noreset(num_inputs, rlen, rows, nnz) ==
  non_empty_loop(0, num_inputs, rlen, rows, nnz)

non_empty_rows_all(num_inputs, rlen, rows, nnz) ==
  non_empty_loop(0, num_inputs, [i \in DOMAIN rlen |-> rlen[i] + 1], rows, 0)

non_empty_rows(num_inputs, rlen, rows, nnz) ==
  non_empty_loop(0, num_inputs, rlen, rows, 0)

(***************************************************************************)
(* Index expressions of _infer_BF.                                         *)
(***************************************************************************)
PrefetchCond_always(cur) == TRUE
PrefetchCond(cur) == cur # num_layers - 1

PrefetchSlot_same(cur) == cur % 2
PrefetchSlot(cur) == (cur + 1) % 2

PrefetchLayer_skip(cur) == cur + 2
PrefetchLayer(cur) == cur + 1

KernelIn(cur) == cur % 2
KernelOut(cur) == (cur + 1) % 2
KernelSlot(cur) == cur % 2
ScanBuf(cur) == (cur + 1) % 2
ResetBuf(cur) == cur % 2
IdentifyBuf == 0

(***************************************************************************)
(* Device routines (SNIG/bf/kernel.hpp, SNIG/utility).                     *)
(***************************************************************************)

\* a read of a never-written entry yields an arbitrary value g
Resolve(row, g) == [n \in NeuronIdx |-> IF row[n] = Undef THEN g ELSE row[n]]

\* rows named by the first n entries of an active-row list
ListedRows(list, n) == {list[i] : i \in 0 .. (n - 1)}

\* bf_inference: one thread block per entry of the active-row list; the
\* block of row rid clears rlenY0[rid], writes row rid of Y1 and counts its
\* positive entries into rlenY1[rid]. Rows not listed are not touched.
bf_inference_Y(k, g) ==
  LET rows == ListedRows(rowsY[k.rows], k.nerows)
      W == WeightOf(d_W[k.wslot])
  IN [Y EXCEPT ![k.yout] =
        [r \in RowIdx |-> IF r \in rows
                          THEN LayerOut(Resolve(Y[k.yin][r], g), W, bias)
                          ELSE Y[k.yout][r]]]

bf_inference_rlen(k, newY) ==
  LET rows == ListedRows(rowsY[k.rows], k.nerows)
  IN [b \in BufIdx |->
        [r \in RowIdx |->
           IF r \notin rows THEN rlenY[b][r]
           ELSE IF b = k.rlen_out THEN NonZeros(newY[k.yout][r])
           ELSE IF b = k.rlen_in THEN 0
           ELSE rlenY[b][r]]]

\* identify: per row, the index of the maximum activation; Inactive for a row
\* without a positive activation
ArgMax(row) ==
  IF \A n \in NeuronIdx : row[n] <= 0 THEN Inactive
  ELSE CHOOSE n \in NeuronIdx :
         /\ \A m \in NeuronIdx : row[m] <= row[n]
         /\ \A m \in NeuronIdx : row[m] = row[n] => n <= m

identify(buf, g) == [r \in RowIdx |-> ArgMax(Resolve(buf[r], g))]

\* read_input_binary: the dense input batch, its row lengths and its list of
\* non-empty rows
read_input_Y(v) == [r \in RowIdx |-> InputRow(r, v[r])]
read_input_rlen(v) == [r \in RowIdx |-> NonZeros(InputRow(r, v[r]))]
read_input_rows(v, old) == SortedInto({r \in RowIdx : v[r] # 0}, old, 0)
read_input_nerows(v) == Cardinality({r \in RowIdx : v[r] # 0})

(***************************************************************************)
(* Stream synchronisation.                                                 *)
(***************************************************************************)
StreamSync0_nowait == TRUE
StreamSync0 == stream0 = << >>

StreamSync1_nowait == TRUE
StreamSync1 == stream1 = << >>

DeviceSync == stream0 = << >> /\ stream1 = << >> /\ stream_default = << >>

(***************************************************************************)
(* Lifetime of the resources of one inference.                             *)
(***************************************************************************)
WName(s) == IF s = 0 THEN "d_W0" ELSE "d_W1"
YName(b) == IF b = 0 THEN "Y0" ELSE "Y1"
RowsName(b) == IF b = 0 THEN "rowsY0" ELSE "rowsY1"
RlenName(b) == IF b = 0 THEN "rlenY0" ELSE "rlenY1"

\* cudaMalloc, cudaMallocManaged, cudaStreamCreate
Acquire(r, S) == [x \in Resources |-> IF x \in S THEN "live" ELSE r[x]]

\* cudaFree, cudaStreamDestroy: valid on a live resource only
Release(r, x) == [r EXCEPT ![x] = IF r[x] = "live" THEN "freed" ELSE "bad_free"]

RECURSIVE ReleaseSeq(_, _)
ReleaseSeq(r, q) == IF q = << >> THEN r ELSE ReleaseSeq(Release(r, Head(q)), Tail(q))

\* the cudaFree calls of infer, in order
FreeOrder_leak ==
  <<"Y0", "Y1", "rowsY0", "rowsY1", "rlenY0", "rlenY1", "d_W0", "d_W1">>
FreeOrder ==
  <<"Y0", "Y1", "rowsY0", "rowsY1", "rlenY0", "rlenY1", "d_W0", "d_W1", "results">>

\* the copy of the num_inputs results into the returned vector
arr_to_Eigen_int(arr) == [r \in RowIdx |-> arr[r]]

(***************************************************************************)
(* The host thread: infer.                                                 *)
(***************************************************************************)
AllocWeights ==
  /\ pc = "alloc_dW"
  /\ d_W' = [s \in BufIdx |-> Undef]
  /\ pc' = "copy_W0"
  /\ res' = Acquire(res, {"d_W0", "d_W1"})
  /\ UNCHANGED <<num_layers, bias, cur_layer, Y, rowsY, rlenY, nerowsY, results,
                 stream0, stream1, stream_default, issued, last_error, log, results_eigen,
                 h_pinned_weight, tile_vars, conv_vars, lay_vars>>

CopyFirstLayer ==
  /\ pc = "copy_W0"
  /\ d_W' = [d_W EXCEPT ![0] = HostBlock(0)]
  /\ pc' = "alloc_Y"
  /\ UNCHANGED <<num_layers, bias, cur_layer, Y, rowsY, rlenY, nerowsY, results,
                 stream0, stream1, stream_default, issued, last_error, log, res, results_eigen,
                 h_pinned_weight, tile_vars, conv_vars, lay_vars>>

AllocBuffers ==
  /\ pc = "alloc_Y"
  /\ Y' = [b \in BufIdx |-> UndefBuf]
  /\ rowsY' = [b \in BufIdx |-> ZeroInts]
  /\ rlenY' = [b \in BufIdx |-> ZeroInts]
  /\ nerowsY' = 0
  /\ pc' = "read_input"
  /\ res' = Acquire(res, {"Y0", "Y1", "rowsY0", "rowsY1", "rlenY0", "rlenY1"})
  /\ UNCHANGED <<num_layers, bias, cur_layer, d_W, results,
                 stream0, stream1, stream_default, issued, last_error, log, results_eigen,
                 h_pinned_weight, tile_vars, conv_vars, lay_vars>>

ReadInput ==
  /\ pc = "read_input"
  /\ \E v \in [RowIdx -> 0 .. MaxAct] :
       /\ Y' = [Y EXCEPT ![0] = read_input_Y(v)]
       /\ rlenY' = [rlenY EXCEPT ![0] = read_input_rlen(v)]
       /\ rowsY' = [rowsY EXCEPT ![0] = read_input_rows(v, rowsY[0])]
       /\ nerowsY' = read_input_nerows(v)
  /\ pc' = "alloc_results"
  /\ UNCHANGED <<num_layers, bias, cur_layer, d_W, results,
                 stream0, stream1, stream_default, issued, last_error, log, res, results_eigen,
                 h_pinned_weight, tile_vars, conv_vars, lay_vars>>

AllocResults ==
  /\ pc = "alloc_results"
  /\ results' = ZeroInts
  /\ pc' = "stream_create"
  /\ res' = Acquire(res, {"results"})
  /\ UNCHANGED <<num_layers, bias, cur_layer, d_W, Y, rowsY, rlenY, nerowsY,
                 stream0, stream1, stream_default, issued, last_error, log, results_eigen,
                 h_pinned_weight, tile_vars, conv_vars, lay_vars>>

(***************************************************************************)
(* The host thread: _infer_BF.                                             *)
(***************************************************************************)
StreamCreate ==
  /\ pc = "stream_create"
  /\ cur_layer' = 0
  /\ pc' = "loop"
  /\ res' = Acquire(res, {"stream0", "stream1"})
  /\ UNCHANGED <<num_layers, bias, d_W, Y, rowsY, rlenY, nerowsY, results,
                 stream0, stream1, stream_default, issued, last_error, log, results_eigen,
                 h_pinned_weight, tile_vars, conv_vars, lay_vars>>

\* the condition of the for loop
LoopCond_le(cur) == cur <= num_layers
LoopCond_short(cur) == cur < num_layers - 1
LoopCond(cur) == cur < num_layers

LoopTest ==
  /\ pc = "loop"
  /\ pc' = IF LoopCond(cur_layer) THEN "prefetch" ELSE "identify"
  /\ UNCHANGED <<num_layers, bias, cur_layer, d_W, Y, rowsY, rlenY, nerowsY, results,
                 stream0, stream1, stream_default, issued, last_error, log, res, results_eigen,
                 h_pinned_weight, tile_vars, conv_vars, lay_vars>>

Prefetch ==
  /\ pc = "prefetch"
  /\ IF PrefetchCond(cur_layer)
       THEN /\ stream0' = Append(stream0, [slot |-> PrefetchSlot(cur_layer),
                                           layer |-> PrefetchLayer(cur_layer)])
            /\ issued' = Append(issued, PrefetchLayer(cur_layer))
       ELSE UNCHANGED <<stream0, issued>>
  /\ pc' = "launch"
  /\ UNCHANGED <<num_layers, bias, cur_layer, d_W, Y, rowsY, rlenY, nerowsY, results,
                 stream1, stream_default, last_error, log, res, results_eigen,
                 h_pinned_weight, tile_vars, conv_vars, lay_vars>>

\* a grid of nerowsY = 0 blocks is an invalid launch configuration: no kernel
\* runs, the error is left in the runtime and the launch has no return value
LaunchLayer ==
  /\ pc = "launch"
  /\ IF nerowsY = 0
       THEN /\ last_error' = "cudaErrorInvalidConfiguration"
            /\ UNCHANGED stream1
       ELSE /\ stream1' = Append(stream1,
                 [layer |-> cur_layer, nerows |-> nerowsY,
                  yin |-> KernelIn(cur_layer), yout |-> KernelOut(cur_layer),
                  rows |-> KernelIn(cur_layer),
                  rlen_in |-> KernelIn(cur_layer), rlen_out |-> KernelOut(cur_layer),
                  wslot |-> KernelSlot(cur_layer)])
            /\ UNCHANGED last_error
  /\ pc' = "sync1"
  /\ log' = Append(log, <<"launch", cur_layer>>)
  /\ UNCHANGED <<num_layers, bias, cur_layer, d_W, Y, rowsY, rlenY, nerowsY, results,
                 stream0, stream_default, issued, res, results_eigen,
                 h_pinned_weight, tile_vars, conv_vars, lay_vars>>

SyncCompute ==
  /\ pc = "sync1"
  /\ StreamSync1
  /\ pc' = "scan"
  /\ UNCHANGED <<num_layers, bias, cur_layer, d_W, Y, rowsY, rlenY, nerowsY, results,
                 stream0, stream1, stream_default, issued, last_error, log, res, results_eigen,
                 h_pinned_weight, tile_vars, conv_vars, lay_vars>>

CompactRows ==
  /\ pc = "scan"
  /\ LET b == ScanBuf(cur_layer)
         r == non_empty_rows(NumInputs, rlenY[b], rowsY[b], nerowsY)
     IN /\ rowsY' = [rowsY EXCEPT ![b] = r.rowsY]
        /\ nerowsY' = r.nnz
  /\ pc' = "memset"
  /\ log' = Append(log, <<"scan", cur_layer>>)
  /\ UNCHANGED <<num_layers, bias, cur_layer, d_W, Y, rlenY, results,
                 stream0, stream1, stream_default, issued, last_error, res, results_eigen,
                 h_pinned_weight, tile_vars, conv_vars, lay_vars>>

ResetBuffer_weights ==
  /\ pc = "memset"
  /\ d_W' = [d_W EXCEPT ![ResetBuf(cur_layer)] = Zeroed]
  /\ pc' = "sync0"
  /\ log' = Append(log, <<"reset", cur_layer>>)
  /\ UNCHANGED <<num_layers, bias, cur_layer, Y, rowsY, rlenY, nerowsY, results,
                 stream0, stream1, stream_default, issued, last_error, res, results_eigen,
                 h_pinned_weight, tile_vars, conv_vars, lay_vars>>

ResetBuffer ==
  /\ pc = "memset"
  /\ Y' = [Y EXCEPT ![ResetBuf(cur_layer)] = ZeroBuf]
  /\ pc' = "sync0"
  /\ log' = Append(log, <<"reset", cur_layer>>)
  /\ UNCHANGED <<num_layers, bias, cur_layer, d_W, rowsY, rlenY, nerowsY, results,
                 stream0, stream1, stream_default, issued, last_error, res, results_eigen,
                 h_pinned_weight, tile_vars, conv_vars, lay_vars>>

SyncTransfer ==
  /\ pc = "sync0"
  /\ StreamSync0
  /\ cur_layer' = cur_layer + 1
  /\ pc' = "loop"
  /\ UNCHANGED <<num_layers, bias, d_W, Y, rowsY, rlenY, nerowsY, results,
                 stream0, stream1, stream_default, issued, last_error, log, res, results_eigen,
                 h_pinned_weight, tile_vars, conv_vars, lay_vars>>

LaunchIdentify ==
  /\ pc = "identify"
  /\ stream_default' = Append(stream_default, [src |-> IdentifyBuf])
  /\ pc' = "devsync"
  /\ log' = Append(log, <<"identify", cur_layer>>)
  /\ UNCHANGED <<num_layers, bias, cur_layer, d_W, Y, rowsY, rlenY, nerowsY, results,
                 stream0, stream1, issued, last_error, res, results_eigen,
                 h_pinned_weight, tile_vars, conv_vars, lay_vars>>

SyncDevice ==
  /\ pc = "devsync"
  /\ DeviceSync
  /\ pc' = "stream_destroy"
  /\ UNCHANGED <<num_layers, bias, cur_layer, d_W, Y, rowsY, rlenY, nerowsY, results,
                 stream0, stream1, stream_default, issued, last_error, log, res, results_eigen,
                 h_pinned_weight, tile_vars, conv_vars, lay_vars>>

StreamDestroy ==
  /\ pc = "stream_destroy"
  /\ pc' = "to_eigen"
  /\ res' = ReleaseSeq(res, <<"stream0", "stream1">>)
  /\ UNCHANGED <<num_layers, bias, cur_layer, d_W, Y, rowsY, rlenY, nerowsY, results,
                 stream0, stream1, stream_default, issued, last_error, log, results_eigen,
                 h_pinned_weight, tile_vars, conv_vars, lay_vars>>

CopyResults ==
  /\ pc = "to_eigen"
  /\ results_eigen' = arr_to_Eigen_int(results)
  /\ pc' = "free"
  /\ UNCHANGED <<num_layers, bias, cur_layer, d_W, Y, rowsY, rlenY, nerowsY, results,
                 stream0, stream1, stream_default, issued, last_error, log, res,
                 h_pinned_weight, tile_vars, conv_vars, lay_vars>>

FreeAll ==
  /\ pc = "free"
  /\ pc' = "done"
  /\ res' = ReleaseSeq(res, FreeOrder)
  /\ UNCHANGED <<num_layers, bias, cur_layer, d_W, Y, rowsY, rlenY, nerowsY, results,
                 stream0, stream1, stream_default, issued, last_error, log, results_eigen,
                 h_pinned_weight, tile_vars, conv_vars, lay_vars>>

(***************************************************************************)
(* The device: completion of the work at the head of each stream.          *)
(***************************************************************************)
Running == pc \notin {"aborted", "done", "unbuilt"}

CopyComplete ==
  /\ Running
  /\ stream0 # << >>
  /\ d_W' = [d_W EXCEPT ![Head(stream0).slot] = HostBlock(Head(stream0).layer)]
  /\ stream0' = Tail(stream0)
  /\ UNCHANGED <<pc, num_layers, bias, cur_layer, Y, rowsY, rlenY, nerowsY, results,
                 stream1, stream_default, issued, last_error, log, res, results_eigen,
                 h_pinned_weight, tile_vars, conv_vars, lay_vars>>

KernelComplete ==
  /\ Running
  /\ stream1 # << >>
  /\ \E g \in 0 .. MaxAct :
       LET k == Head(stream1)
           newY == bf_inference_Y(k, g)
       IN /\ Y' = newY
          /\ rlenY' = bf_inference_rlen(k, newY)
  /\ stream1' = Tail(stream1)
  /\ log' = Append(log, <<"kdone", Head(stream1).layer>>)
  /\ UNCHANGED <<pc, num_layers, bias, cur_layer, d_W, rowsY, nerowsY, results,
                 stream0, stream_default, issued, last_error, res, results_eigen,
                 h_pinned_weight, tile_vars, conv_vars, lay_vars>>

IdentifyComplete ==
  /\ Running
  /\ stream_default # << >>
  /\ stream0 = << >> /\ stream1 = << >>
  /\ \E g \in 0 .. MaxAct : results' = identify(Y[Head(stream_default).src], g)
  /\ stream_default' = Tail(stream_default)
  /\ log' = Append(log, <<"idone", cur_layer>>)
  /\ UNCHANGED <<pc, num_layers, bias, cur_layer, d_W, Y, rowsY, rlenY, nerowsY,
                 stream0, stream1, issued, last_error, res, results_eigen,
                 h_pinned_weight, tile_vars, conv_vars, lay_vars>>

(***************************************************************************)
(* Device errors. checkCuda ends the run when the call it wraps returns an *)
(* error; a kernel launch returns nothing and is not wrapped.              *)
(***************************************************************************)
CheckedCalls ==
  {"alloc_dW", "copy_W0", "alloc_Y", "alloc_results", "stream_create", "sync1",
   "memset", "sync0", "devsync", "stream_destroy", "free"}
  \cup (IF PrefetchCond(cur_layer) THEN {"prefetch"} ELSE {})

checkCuda_fails ==
  /\ pc \in CheckedCalls
  /\ last_error' = "cudaError"
  /\ pc' = "aborted"
  /\ UNCHANGED <<num_layers, bias, cur_layer, d_W, Y, rowsY, rlenY, nerowsY, results,
                 stream0, stream1, stream_default, issued, log, res, results_eigen,
                 h_pinned_weight, tile_vars, conv_vars, lay_vars>>

LaunchLayerFails ==
  /\ pc = "launch"
  /\ nerowsY > 0
  /\ last_error' = "cudaErrorLaunchOutOfResources"
  /\ pc' = "sync1"
  /\ log' = Append(log, <<"launch", cur_layer>>)
  /\ UNCHANGED <<num_layers, bias, cur_layer, d_W, Y, rowsY, rlenY, nerowsY, results,
                 stream0, stream1, stream_default, issued, res, results_eigen,
                 h_pinned_weight, tile_vars, conv_vars, lay_vars>>

LaunchIdentifyFails ==
  /\ pc = "identify"
  /\ last_error' = "cudaErrorLaunchOutOfResources"
  /\ pc' = "devsync"
  /\ log' = Append(log, <<"identify", cur_layer>>)
  /\ UNCHANGED <<num_layers, bias, cur_layer, d_W, Y, rowsY, rlenY, nerowsY, results,
                 stream0, stream1, stream_default, issued, res, results_eigen,
                 h_pinned_weight, tile_vars, conv_vars, lay_vars>>

(***************************************************************************)
(* The constructor's tiling computation.                                   *)
(***************************************************************************)
TileQuery ==
  /\ tpc = "query"
  /\ max_num_per_block' = sharedMemPerBlock \div sizeof_T
  /\ tpc' = "branch"
  /\ UNCHANGED <<num_neurons, sharedMemPerBlock, sizeof_T, max_divisor, COL_BLK,
                 N_SLAB, pipe_vars, conv_vars, lay_vars>>

TileBranch ==
  /\ tpc = "branch"
  /\ IF num_neurons <= max_num_per_block
       THEN /\ COL_BLK' = num_neurons
            /\ tpc' = "slab"
            /\ UNCHANGED max_divisor
       ELSE /\ max_divisor' = 2
            /\ tpc' = "loop"
            /\ UNCHANGED COL_BLK
  /\ UNCHANGED <<num_neurons, sharedMemPerBlock, sizeof_T, max_num_per_block,
                 N_SLAB, pipe_vars, conv_vars, lay_vars>>

\* the condition of the while loop
TileCond_le(n, d, budget) == (n % d # 0) \/ (budget <= (n \div d))
TileCond(n, d, budget) == (n % d # 0) \/ (budget < (n \div d))

\* For max_divisor > num_neurons the condition stays true (n % d = n # 0) for
\* every further value of the int, so the search can only end in the signed
\* overflow of ++max_divisor: "overflow" stands for that remainder of the loop.
TileLoop ==
  /\ tpc = "loop"
  /\ IF TileCond(num_neurons, max_divisor, max_num_per_block)
       THEN /\ max_divisor' = max_divisor + 1
            /\ tpc' = IF max_divisor + 1 > num_neurons THEN "overflow" ELSE "loop"
            /\ UNCHANGED COL_BLK
       ELSE /\ COL_BLK' = num_neurons \div max_divisor
            /\ tpc' = "slab"
            /\ UNCHANGED max_divisor
  /\ UNCHANGED <<num_neurons, sharedMemPerBlock, sizeof_T, max_num_per_block,
                 N_SLAB, pipe_vars, conv_vars, lay_vars>>

TileSlab ==
  /\ tpc = "slab"
  /\ N_SLAB' = num_neurons \div COL_BLK
  /\ tpc' = "done"
  /\ UNCHANGED <<num_neurons, sharedMemPerBlock, sizeof_T, max_num_per_block,
                 max_divisor, COL_BLK, pipe_vars, conv_vars, lay_vars>>

(***************************************************************************)
(* Specifications.                                                         *)
(***************************************************************************)
PipeIdle ==
  /\ cur_layer = 0
  /\ d_W = [s \in BufIdx |-> Undef]
  /\ Y = [b \in BufIdx |-> UndefBuf]
  /\ rowsY = [b \in BufIdx |-> UndefInts]
  /\ rlenY = [b \in BufIdx |-> UndefInts]
  /\ nerowsY = 0
  /\ results = UndefInts
  /\ stream0 = << >>
  /\ stream1 = << >>
  /\ stream_default = << >>
  /\ issued = << >>
  /\ last_error = "cudaSuccess"
  /\ log = << >>
  /\ res = [r \in Resources |-> "none"]
  /\ results_eigen = UndefInts
  /\ h_pinned_weight = [L \in 0 .. (num_layers - 1) |-> L]

TileIdle ==
  /\ num_neurons = Neurons
  /\ sharedMemPerBlock = 0
  /\ sizeof_T = 4
  /\ max_num_per_block = 0
  /\ max_divisor = 0
  /\ COL_BLK = 0
  /\ N_SLAB = 0

ConvIdle ==
  /\ cpc = "none"
  /\ conv_max_num_per_block = 0
  /\ conv_max_divisor = 0
  /\ conv_COL_BLK = 0
  /\ conv_N_SLAB = 0

LayIdle ==
  /\ lpc = "none"
  /\ max_nnz_per_layer = 0
  /\ pad = 0
  /\ p_w_index_len = 0
  /\ pp_w_index_len = 0
  /\ pp_wlen = 0
  /\ pp_wsize = 0

\* infer on a constructed engine
Init ==
  /\ pc = "alloc_dW"
  /\ num_layers \in 1 .. MaxLayers
  /\ bias \in BiasSet
  /\ PipeIdle
  /\ tpc = "built"
  /\ TileIdle
  /\ ConvIdle
  /\ LayIdle

Host ==
  \/ AllocWeights \/ CopyFirstLayer \/ AllocBuffers \/ ReadInput \/ AllocResults
  \/ StreamCreate \/ LoopTest \/ Prefetch \/ LaunchLayer \/ SyncCompute
  \/ CompactRows \/ ResetBuffer \/ SyncTransfer \/ LaunchIdentify \/ SyncDevice
  \/ StreamDestroy \/ CopyResults \/ FreeAll

Device == CopyComplete \/ KernelComplete \/ IdentifyComplete

Next == Host \/ Device

Spec == Init /\ [][Next]_vars

\* infer with device calls that may fail
NextFail == Next \/ checkCuda_fails \/ LaunchLayerFails \/ LaunchIdentifyFails

SpecFail == Init /\ [][NextFail]_vars

\* the tiling computation of the constructor, for every capability and size
InitTiling ==
  /\ pc = "unbuilt"
  /\ num_layers = 1
  /\ bias = 0
  /\ PipeIdle
  /\ tpc = "query"
  /\ num_neurons \in 1 .. MaxNeurons
  /\ sharedMemPerBlock \in 0 .. MaxSharedMem
  /\ sizeof_T \in {4, 8}
  /\ max_num_per_block = 0
  /\ max_divisor = 0
  /\ COL_BLK = 0
  /\ N_SLAB = 0
  /\ ConvIdle
  /\ LayIdle

NextTiling == TileQuery \/ TileBranch \/ TileLoop \/ TileSlab

SpecTiling == InitTiling /\ [][NextTiling]_vars

\* _non_empty_rows alone, on every row-length array, every previous content of
\* the list it writes and every incoming value of nnz
InitCompact ==
  /\ pc = "scan"
  /\ num_layers = MaxLayers
  /\ bias = 0
  /\ cur_layer \in BufIdx
  /\ d_W = [s \in BufIdx |-> Undef]
  /\ Y = [b \in BufIdx |-> ZeroBuf]
  /\ \E f \in [RowIdx -> 0 .. Neurons] :
       rlenY = [b \in BufIdx |-> IF b = ScanBuf(cur_layer) THEN f ELSE ZeroInts]
  /\ \E l \in [RowIdx -> RowIdx] :
       rowsY = [b \in BufIdx |-> IF b = ScanBuf(cur_layer) THEN l ELSE ZeroInts]
  /\ nerowsY \in 0 .. NumInputs
  /\ results = ZeroInts
  /\ stream0 = << >>
  /\ stream1 = << >>
  /\ stream_default = << >>
  /\ issued = << >>
  /\ last_error = "cudaSuccess"
  /\ log = << >>
  /\ res = [r \in Resources |-> "live"]
  /\ results_eigen = UndefInts
  /\ h_pinned_weight = [L \in 0 .. (num_layers - 1) |-> L]
  /\ tpc = "built"
  /\ TileIdle
  /\ ConvIdle
  /\ LayIdle

SpecCompact == InitCompact /\ [][CompactRows]_vars

(***************************************************************************)
(* Properties.                                                             *)
(***************************************************************************)

\* C1: when the host is about to launch the kernel of layer cur_layer, the
\* weight slot the kernel reads holds the block of exactly that layer and no
\* copy into that slot is still pending on the transfer stream.
C1_WeightsReadyAtLaunch ==
  pc = "launch" =>
    /\ d_W[KernelSlot(cur_layer)] = cur_layer
    /\ \A i \in DOMAIN stream0 : stream0[i].slot # KernelSlot(cur_layer)

\* a layer >= 1 is about to be launched while the prefetch of the layer after
\* it is in flight
C1_Witness ==
  /\ pc = "launch"
  /\ cur_layer >= 1
  /\ nerowsY > 0
  /\ stream0 # << >>

\* C2: no copy into a weight slot is pending while a launched kernel that
\* reads that slot has not completed, and a prefetch is issued only when no
\* kernel is outstanding on the compute stream.
C2_NoOverwriteWhileRead ==
  /\ \A i \in DOMAIN stream0 : \A j \in DOMAIN stream1 :
       stream0[i].slot # stream1[j].wslot
  /\ pc = "prefetch" => stream1 = << >>

\* a copy is in flight while a kernel is running
C2_Witness ==
  /\ stream0 # << >>
  /\ stream1 # << >>
  /\ cur_layer >= 1

\* C3: the classes reported at the end are the per-row arg max of the buffer
\* the kernel of the last layer wrote.
C3_IdentifyReadsLastOutput ==
  pc = "done" =>
    \E g \in 0 .. MaxAct : results = identify(Y[KernelOut(num_layers - 1)], g)

LoopPcs == {"loop", "prefetch", "launch", "sync1", "scan", "memset", "sync0"}

\* the rows of the current active-row list
ActiveRows ==
  IF pc \in {"memset", "sync0"}
    THEN ListedRows(rowsY[ScanBuf(cur_layer)], nerowsY)
    ELSE ListedRows(rowsY[KernelIn(cur_layer)], nerowsY)

C6_CompactionExact ==
  [][pc = "scan" =>
       LET b == ScanBuf(cur_layer)
           S == {i \in RowIdx : rlenY[b][i] # 0}
       IN /\ nerowsY' = Cardinality(S)
          /\ nerowsY' <= NumInputs
          /\ \A i \in 0 .. (nerowsY' - 1) : rowsY'[b][i] \in S
          /\ \A i \in 0 .. (nerowsY' - 2) : rowsY'[b][i] < rowsY'[b][i + 1]
          /\ \A i \in nerowsY' .. (NumInputs - 1) : rowsY'[b][i] = rowsY[b][i]
          /\ rowsY'[1 - b] = rowsY[1 - b]
          /\ rlenY' = rlenY]_vars

\* a scan that kept some rows and dropped others, and left the old last entry
\* of the list in place
C6_Witness ==
  /\ pc = "memset"
  /\ nerowsY > 0
  /\ nerowsY < NumInputs
  /\ rowsY[ScanBuf(cur_layer)][NumInputs - 1] = NumInputs - 1
  /\ rlenY[ScanBuf(cur_layer)][NumInputs - 1] = 0

\* C7: at the entry of every layer stage the buffer the stage's kernel writes
\* holds zero in every entry.
C7_OutputBufferZeroAtEntry ==
  pc \in {"prefetch", "launch"} => Y[KernelOut(cur_layer)] = ZeroBuf

\* C8: every asynchronous weight copy is for a layer in 1 .. num_layers-1, and
\* a finished run has issued exactly one for each of them, in order.
C8_PrefetchCount ==
  /\ \A i \in DOMAIN issued : issued[i] >= 1 /\ issued[i] <= num_layers - 1
  /\ Len(issued) <= num_layers - 1
  /\ pc = "done" => issued = [i \in 1 .. (num_layers - 1) |-> i]

\* a finished run of at least three layers
C8_Witness ==
  /\ pc = "done"
  /\ Len(issued) >= 2

\* C9: once a device operation has failed, the run is aborted before any
\* further pipeline step: the host gets no further than the synchronisation
\* that follows the failed call.
C9_FailureIsFatal ==
  last_error # "cudaSuccess" => pc \in {"aborted", "sync1", "devsync"}

\* C10: for a budget of at least one element, COL_BLK is the largest divisor
\* of num_neurons that fits the budget and N_SLAB * COL_BLK = num_neurons.
C10_TilingLargestDivisor ==
  (tpc = "done" /\ max_num_per_block >= 1) =>
    /\ num_neurons % COL_BLK = 0
    /\ COL_BLK <= max_num_per_block
    /\ \A d \in 1 .. num_neurons :
         (num_neurons % d = 0 /\ d <= max_num_per_block) => d <= COL_BLK
    /\ N_SLAB * COL_BLK = num_neurons

\* a tiling found by the divisor search after at least two steps
C10_Witness ==
  /\ tpc = "done"
  /\ max_divisor >= 3
  /\ COL_BLK > 1
  /\ COL_BLK < max_num_per_block

(***************************************************************************)
(* The converter (main of tsv_file_to_binary): its own tiling computation, *)
(* from the same capability query, always with sizeof(float).              *)
(***************************************************************************)
sizeof_float == 4

ConvQuery ==
  /\ cpc = "query"
  /\ conv_max_num_per_block' = sharedMemPerBlock \div sizeof_float
  /\ cpc' = "branch"
  /\ UNCHANGED <<conv_max_divisor, conv_COL_BLK, conv_N_SLAB, pipe_vars, tile_vars,
                 lay_vars>>

ConvBranch ==
  /\ cpc = "branch"
  /\ IF num_neurons <= conv_max_num_per_block
       THEN /\ conv_COL_BLK' = num_neurons
            /\ cpc' = "slab"
            /\ UNCHANGED conv_max_divisor
       ELSE /\ conv_max_divisor' = 2
            /\ cpc' = "loop"
            /\ UNCHANGED conv_COL_BLK
  /\ UNCHANGED <<conv_max_num_per_block, conv_N_SLAB, pipe_vars, tile_vars, lay_vars>>

ConvCond(n, d, budget) == (n % d # 0) \/ (budget < (n \div d))

ConvLoop ==
  /\ cpc = "loop"
  /\ IF ConvCond(num_neurons, conv_max_divisor, conv_max_num_per_block)
       THEN /\ conv_max_divisor' = conv_max_divisor + 1
            /\ cpc' = IF conv_max_divisor + 1 > num_neurons THEN "overflow" ELSE "loop"
            /\ UNCHANGED conv_COL_BLK
       ELSE /\ conv_COL_BLK' = num_neurons \div conv_max_divisor
            /\ cpc' = "slab"
            /\ UNCHANGED conv_max_divisor
  /\ UNCHANGED <<conv_max_num_per_block, conv_N_SLAB, pipe_vars, tile_vars, lay_vars>>

ConvSlab ==
  /\ cpc = "slab"
  /\ conv_N_SLAB' = num_neurons \div conv_COL_BLK
  /\ cpc' = "done"
  /\ UNCHANGED <<conv_max_num_per_block, conv_max_divisor, conv_COL_BLK, pipe_vars,
                 tile_vars, lay_vars>>

\* the converter and the constructor, two programs run on the same device
\* with the same neuron count
InitConvert ==
  /\ pc = "unbuilt"
  /\ num_layers = 1
  /\ bias = 0
  /\ PipeIdle
  /\ tpc = "query"
  /\ num_neurons \in 1 .. MaxNeurons
  /\ sharedMemPerBlock \in 0 .. MaxSharedMem
  /\ sizeof_T \in {4, 8}
  /\ max_num_per_block = 0
  /\ max_divisor = 0
  /\ COL_BLK = 0
  /\ N_SLAB = 0
  /\ cpc = "query"
  /\ conv_max_num_per_block = 0
  /\ conv_max_divisor = 0
  /\ conv_COL_BLK = 0
  /\ conv_N_SLAB = 0
  /\ LayIdle

NextConvert ==
  \/ TileQuery \/ TileBranch \/ TileLoop \/ TileSlab
  \/ ConvQuery \/ ConvBranch \/ ConvLoop \/ ConvSlab

SpecConvert == InitConvert /\ [][NextConvert]_vars

\* C12: when both computations have finished, the converter and the engine
\* hold the same COL_BLK and the same N_SLAB.
C12_ConverterAgrees ==
  (tpc = "done" /\ cpc = "done") => (COL_BLK = conv_COL_BLK /\ N_SLAB = conv_N_SLAB)

\* C11: the divisor search never runs past num_neurons: when no divisor up to
\* num_neurons gives a tile that fits, the computation stops with an error.
C11_SearchStopsAtNeurons ==
  /\ tpc # "overflow"
  /\ tpc = "loop" => max_divisor <= num_neurons

\* C13 as stated: no weight copy is in flight while a layer kernel is running.
C13_NoOverlap == ~(stream0 # << >> /\ stream1 # << >>)

\* C13 as amended: only layer 0 is loaded synchronously (the copy has
\* completed when cudaMemcpy returns); a weight copy in flight while a layer
\* kernel is running is the copy of the layer after the running one.
C13_OverlapOnlyNextLayer ==
  /\ pc = "alloc_Y" => (d_W[0] = 0 /\ stream0 = << >>)
  /\ \A i \in DOMAIN stream0 : \A j \in DOMAIN stream1 :
       stream0[i].layer = stream1[j].layer + 1

\* the kernel of layer 0 is running while the weights of layer 1 are in flight
C13_Witness ==
  /\ cur_layer = 0
  /\ pc = "sync1"
  /\ stream1 # << >>
  /\ stream0 # << >>
  /\ Head(stream0).layer = 1

(***************************************************************************)
(* The order of the pipeline events.                                       *)
(***************************************************************************)
\* positions of event e in the log
Pos(e) == {i \in DOMAIN log : log[i] = e}

Happened(e) == Pos(e) # {}

\* every occurrence of e2 has an occurrence of e1 before it
Precedes(e1, e2) == \A j \in Pos(e2) : \E i \in Pos(e1) : i < j

IsHostEvent(e) == e[1] \notin {"kdone", "idone"}

\* the events of the host thread alone
HostLog == SelectSeq(log, IsHostEvent)

\* the i-th host event of a run of num_layers stages and one identify
ExpectedAt(i) ==
  IF i > 3 * num_layers THEN <<"identify", num_layers>>
  ELSE LET L == (i - 1) \div 3
           k == (i - 1) % 3
       IN IF k = 0 THEN <<"launch", L>>
          ELSE IF k = 1 THEN <<"scan", L>> ELSE <<"reset", L>>

\* the liveness specification: the host thread runs on while it can, and each
\* stream completes the work issued to it
SpecLive ==
  /\ Init
  /\ [][Next]_vars
  /\ WF_vars(Host)
  /\ WF_vars(CopyComplete)
  /\ WF_vars(KernelComplete)
  /\ WF_vars(IdentifyComplete)

\* C14: the host scans a layer's row lengths only when no kernel is
\* outstanding on the compute stream, the layer's kernel (if its grid was not
\* empty) having completed; and the next layer is launched only after that
\* scan, with the list and the count the scan produced.
C14_ScanIsSyncBoundary ==
  /\ pc = "scan" =>
       /\ stream1 = << >>
       /\ log[Len(log)] \in {<<"kdone", cur_layer>>, <<"launch", cur_layer>>}
       /\ log[Len(log)] = <<"launch", cur_layer>> => nerowsY = 0
  /\ \A L \in 0 .. MaxLayers :
       /\ Precedes(<<"kdone", L>>, <<"scan", L>>) \/ ~Happened(<<"kdone", L>>)
       /\ \A i \in Pos(<<"kdone", L>>) : \A j \in Pos(<<"scan", L>>) : i < j
       /\ Precedes(<<"scan", L>>, <<"launch", L + 1>>)
  /\ (pc = "launch" /\ cur_layer >= 1) =>
       LET S == {r \in RowIdx : rlenY[KernelIn(cur_layer)][r] > 0}
       IN /\ nerowsY = Cardinality(S)
          /\ ListedRows(rowsY[KernelIn(cur_layer)], nerowsY) = S

\* a layer >= 1 is about to be launched on rows that the completed kernel of
\* the layer before left active
C14_Witness ==
  /\ pc = "launch"
  /\ cur_layer >= 1
  /\ nerowsY > 0
  /\ Happened(<<"kdone", cur_layer - 1>>)
  /\ Happened(<<"scan", cur_layer - 1>>)

C17_Terminates ==
  <>(/\ pc = "done"
     /\ Cardinality({i \in DOMAIN log : log[i][1] = "reset"}) = num_layers
     /\ Cardinality({i \in DOMAIN log : log[i][1] = "launch"}) = num_layers
     /\ Cardinality({i \in DOMAIN log : log[i][1] = "identify"}) = 1)

\* a finished run in which the active rows ran out before the last layer: the
\* kernel of layer 0 ran, the last layer had no row left
C17_Witness ==
  /\ pc = "done"
  /\ num_layers >= 2
  /\ nerowsY = 0
  /\ Happened(<<"kdone", 0>>)
  /\ ~Happened(<<"kdone", num_layers - 1>>)

\* C16: no step writes the host pinned weight region; a device weight slot
\* changes only in a step that completes a host-to-device copy into it, and
\* then holds the host block copied; the scan and the reset change no slot.
C16_WeightsImmutable ==
  [][/\ h_pinned_weight' = h_pinned_weight
     /\ \A s \in BufIdx :
          (d_W'[s] # d_W[s]) =>
            \/ pc = "copy_W0" /\ pc' = "alloc_Y" /\ s = 0 /\ d_W'[s] = h_pinned_weight[0]
            \/ /\ stream0 # << >>
               /\ stream0' = Tail(stream0)
               /\ s = Head(stream0).slot
               /\ Head(stream0).layer \in DOMAIN h_pinned_weight
               /\ d_W'[s] = h_pinned_weight[Head(stream0).layer]
     /\ (Len(log') > Len(log) /\ log'[Len(log')][1] \in {"scan", "reset"}) =>
          d_W' = d_W]_vars

\* both slots hold host blocks, stage 1 has scanned and reset, and the slot
\* of layer 0 has been reloaded with layer 2
C16_Witness ==
  /\ num_layers >= 3
  /\ Happened(<<"scan", 1>>)
  /\ Happened(<<"reset", 1>>)
  /\ d_W[1] = h_pinned_weight[1]
  /\ d_W[0] = h_pinned_weight[2]

(***************************************************************************)
(* The constructor's layout of one packed layer block.                     *)
(***************************************************************************)
sizeof_int == 4

\* the result of find_max_nnz_binary, for every weight file
LayMaxNnz ==
  /\ tpc = "done"
  /\ lpc = "none"
  /\ max_nnz_per_layer' \in 0 .. MaxNnz
  /\ lpc' = "index_len"
  /\ UNCHANGED <<pad, p_w_index_len, pp_w_index_len, pp_wlen, pp_wsize,
                 pipe_vars, tile_vars, conv_vars>>

LayIndexLen ==
  /\ lpc = "index_len"
  /\ p_w_index_len' = num_neurons * N_SLAB + max_nnz_per_layer + 1
  /\ lpc' = "align"
  /\ UNCHANGED <<max_nnz_per_layer, pad, pp_w_index_len, pp_wlen, pp_wsize,
                 pipe_vars, tile_vars, conv_vars>>

LayAlign ==
  /\ lpc = "align"
  /\ pad' = IF p_w_index_len % sizeof_T # 0 THEN pad + 1 ELSE pad
  /\ lpc' = "padded"
  /\ UNCHANGED <<max_nnz_per_layer, p_w_index_len, pp_w_index_len, pp_wlen, pp_wsize,
                 pipe_vars, tile_vars, conv_vars>>

LayPadded ==
  /\ lpc = "padded"
  /\ pp_w_index_len' = p_w_index_len + pad
  /\ lpc' = "wlen"
  /\ UNCHANGED <<max_nnz_per_layer, pad, p_w_index_len, pp_wlen, pp_wsize,
                 pipe_vars, tile_vars, conv_vars>>

\* the length of a block in ints
PaddedLen_noratio(ilen, szT, nnz) == ilen + nnz
PaddedLen(ilen, szT, nnz) == ilen + (szT \div sizeof_float) * nnz

LayWlen ==
  /\ lpc = "wlen"
  /\ pp_wlen' = PaddedLen(pp_w_index_len, sizeof_T, max_nnz_per_layer)
  /\ lpc' = "wsize"
  /\ UNCHANGED <<max_nnz_per_layer, pad, p_w_index_len, pp_w_index_len, pp_wsize,
                 pipe_vars, tile_vars, conv_vars>>

LayWsize ==
  /\ lpc = "wsize"
  /\ pp_wsize' = sizeof_int * pp_w_index_len + sizeof_T * max_nnz_per_layer
  /\ lpc' = "done"
  /\ UNCHANGED <<max_nnz_per_layer, pad, p_w_index_len, pp_w_index_len, pp_wlen,
                 pipe_vars, tile_vars, conv_vars>>

\* the constructor, for every capability, size, element type, layer count and
\* weight file
InitLayout ==
  /\ pc = "unbuilt"
  /\ num_layers \in 1 .. MaxLayers
  /\ bias = 0
  /\ PipeIdle
  /\ tpc = "query"
  /\ num_neurons \in 1 .. MaxNeurons
  /\ sharedMemPerBlock \in 0 .. MaxSharedMem
  /\ sizeof_T \in {sizeof_float, 2 * sizeof_float}
  /\ max_num_per_block = 0
  /\ max_divisor = 0
  /\ COL_BLK = 0
  /\ N_SLAB = 0
  /\ ConvIdle
  /\ LayIdle

NextLayout ==
  \/ NextTiling
  \/ LayMaxNnz \/ LayIndexLen \/ LayAlign \/ LayPadded \/ LayWlen \/ LayWsize

SpecLayout == InitLayout /\ [][NextLayout]_vars

\* the size in bytes of the host pinned region
HostRegionSize == pp_wsize * num_layers

\* the bytes of the host pinned region that the prefetch of stage cur reads:
\* _h_pinned_weight is an int*, the length is given in bytes
PrefetchSrcBegin(cur) == sizeof_int * (PrefetchLayer(cur) * pp_wlen)

PrefetchSrcEnd(cur) == PrefetchSrcBegin(cur) + pp_wsize

\* the byte offset in a weight slot of the value array handed to the kernel:
\* d_W[slot] is an int*
KernelValueOffset == sizeof_int * p_w_index_len

\* C18: the stride in bytes equals the stride in ints times sizeof(int), so
\* the prefetch of every stage L that has one reads exactly the bytes
\* [(L+1) * _pp_wsize, (L+2) * _pp_wsize), which lie inside the region.
C18_StrideConsistent ==
  lpc = "done" =>
    /\ pp_wsize = sizeof_int * pp_wlen
    /\ \A cur \in 0 .. (num_layers - 1) :
         PrefetchCond(cur) =>
           /\ PrefetchSrcBegin(cur) = (cur + 1) * pp_wsize
           /\ PrefetchSrcEnd(cur) = (cur + 2) * pp_wsize
           /\ PrefetchSrcEnd(cur) <= HostRegionSize

\* a padded layout of double values with several layers to prefetch
C18_Witness ==
  /\ lpc = "done"
  /\ sizeof_T = 2 * sizeof_float
  /\ max_nnz_per_layer > 0
  /\ pad = 1
  /\ num_layers >= 2
  /\ N_SLAB >= 2

\* C20: the value array handed to the kernel starts at a byte offset that is
\* a multiple of sizeof(T).
C20_ValuePointerAligned ==
  lpc = "done" => KernelValueOffset % sizeof_T = 0

(***************************************************************************)
(* Resource lifetime.                                                      *)
(***************************************************************************)
\* the resources that the next statement of the host thread touches
HostUses ==
  CASE pc = "copy_W0" -> {"d_W0"}
    [] pc = "read_input" -> {"Y0", "rlenY0", "rowsY0"}
    [] pc = "prefetch" ->
         IF PrefetchCond(cur_layer) THEN {"stream0", WName(PrefetchSlot(cur_layer))} ELSE {}
    [] pc = "launch" ->
         {"stream1", WName(KernelSlot(cur_layer)), YName(KernelIn(cur_layer)),
          YName(KernelOut(cur_layer)), RowsName(KernelIn(cur_layer)),
          RlenName(KernelIn(cur_layer)), RlenName(KernelOut(cur_layer))}
    [] pc = "sync1" -> {"stream1"}
    [] pc = "scan" -> {RlenName(ScanBuf(cur_layer)), RowsName(ScanBuf(cur_layer))}
    [] pc = "memset" -> {YName(ResetBuf(cur_layer))}
    [] pc = "sync0" -> {"stream0"}
    [] pc = "identify" -> {YName(IdentifyBuf), "results"}
    [] pc = "stream_destroy" -> {"stream0", "stream1"}
    [] pc = "to_eigen" -> {"results"}
    [] pc = "free" -> {FreeOrder[i] : i \in DOMAIN FreeOrder}
    [] OTHER -> {}

\* the resources that the work pending on the device touches
DeviceUses ==
  UNION ( {{"stream0", WName(stream0[i].slot)} : i \in DOMAIN stream0}
          \cup {{"stream1", WName(stream1[i].wslot), YName(stream1[i].yin),
                 YName(stream1[i].yout), RowsName(stream1[i].rows),
                 RlenName(stream1[i].rlen_in), RlenName(stream1[i].rlen_out)}
                  : i \in DOMAIN stream1}
          \cup {{YName(stream_default[i].src), "results"} : i \in DOMAIN stream_default} )

\* C19: every resource the host or the device is about to touch is live (so
\* none is touched after its release, and none is released twice); the
\* results are copied out while the results array is live; when infer has
\* returned, each of the eleven resources has been released.
C19_ReleasedOnceNoUseAfter ==
  /\ \A x \in HostUses \cup DeviceUses : res[x] = "live"
  /\ \A x \in Resources : res[x] # "bad_free"
  /\ pc = "free" => (results_eigen = arr_to_Eigen_int(results) /\ res["results"] = "live")
  /\ pc = "done" =>
       /\ \A x \in Resources : res[x] = "freed"
       /\ results_eigen = results

\* infer has returned from a run of several layers in which both weight
\* slots, both streams and the kernels were used
C19_Witness ==
  /\ pc = "done"
  /\ num_layers >= 2
  /\ Happened(<<"kdone", 1>>)
  /\ Happened(<<"idone", num_layers>>)
  /\ \A x \in Resources : res[x] = "freed"

\* the byte offset in a weight slot of the column indices handed to the kernel
KernelColOffset == sizeof_int * (num_neurons * N_SLAB + 1)

\* the regions of a block that the kernel addresses, as [begin, end) in bytes
RowRegion == <<0, KernelColOffset>>

ColRegion == <<KernelColOffset, KernelColOffset + sizeof_int * max_nnz_per_layer>>

ValueRegion == <<KernelValueOffset, KernelValueOffset + sizeof_T * max_nnz_per_layer>>

Disjoint(a, b) == a[2] <= b[1] \/ b[2] <= a[1]

\* the three regions do not overlap and end inside the block
RegionsDisjointInBlock ==
  /\ Disjoint(RowRegion, ColRegion)
  /\ Disjoint(ColRegion, ValueRegion)
  /\ Disjoint(RowRegion, ValueRegion)
  /\ ValueRegion[2] <= pp_wsize

\* C21: in a packed block the row offsets, the column indices and the values
\* addressed by the kernel are pairwise disjoint and inside the _pp_wsize
\* bytes of the block, and the values start at the padded index length that
\* _pp_wsize is computed from.
C21_RegionsAtPaddedLayout ==
  lpc = "done" =>
    /\ RegionsDisjointInBlock
    /\ KernelValueOffset = sizeof_int * pp_w_index_len

====
